---- MODULE Spec2Model ----
(***************************************************************************)
(* The selection ledger of daily_manga_video.py: one invocation of the     *)
(* script (build_video, then send_email) over the two files                *)
(* manga_list.json and used.json.                                          *)
(*                                                                         *)
(* A catalog item [title, description] is represented by its title, the    *)
(* only field the ledger logic reads (m[0] at line 77, `for t,_ in         *)
(* selected` at line 316).  Titles are the integers of Ids; the catalog    *)
(* holds each title once (spec section 3: ids are unique).                 *)
(*                                                                         *)
(*   Spec       one invocation of the script, NUM_RECS as in the source.   *)
(*   SpecDaily  repeated invocations over the same files (the daily job),  *)
(*              with the batch size scaled to 1..MaxRecs: two disjoint     *)
(*              batches of five need a catalog of ten, whose 30240 ordered *)
(*              samples per run are out of reach of exhaustive checking.   *)
(*   SpecCommit the commit step (lines 315-321) applied once and then a    *)
(*              second time to arbitrary ledgers and batches.              *)
(***************************************************************************)
EXTENDS Integers, Sequences, FiniteSets

\* ---------------------------------------------------------------- bounds
\* Largest catalog (manga_list.json holds titles 1..k, k <= MaxCatalog).
MaxCatalog == 6
\* Longest used.json the first invocation may find on disk.
MaxUsed == 2
\* SpecDaily: number of invocations, largest scaled batch size, largest
\* catalog.
MaxRuns == 3
MaxRecs == 2
MaxDailyCatalog == 4
\* SpecCommit: longest ledger, longest batch, number of titles.
MaxLedger == 3
MaxBatch == 3
MaxIds == 5

\* ------------------------------------------------------ program constants
NUM_RECS == 5

\* The titles used.json may name at first: the code only compares titles
\* for equality, so the first MaxUsed catalog titles stand for any, and
\* one more title stands for those that no catalog holds.
StaleId == MaxCatalog + 1

UsedIds == (1..MaxUsed) \cup {StaleId}

VARIABLES
    mangaJson,      \* the file manga_list.json: [exists, data]
    usedJson,       \* the file used.json: [exists, data]
    numRecs,        \* the module constant NUM_RECS, as configured
    pc,             \* where the invocation stands
    manga,          \* build_video's local `manga`
    used,           \* build_video's local `used`
    remaining,      \* build_video's local `remaining`
    selected,       \* build_video's local `selected` (kept in meta["slides"])
    resetOccurred,  \* whether lines 204-206 ran in this invocation
    outFile,        \* the video file of this invocation
    metaFile,       \* whether meta_<ts>.json was written
    emailStatus,    \* what send_email did
    failedAt,       \* the step whose exception ended the invocation
    ledger0,        \* history: used.json as found when the invocation began
    runs,           \* history: number of invocations so far
    hasPrev,        \* history: some earlier invocation returned from build_video
    prevReset,      \* history: that invocation took the reset branch
    prevBatch,      \* history: the titles it selected
    noRepeat        \* history: titles selected by the successful invocations
                    \*          since the last successful reset, it included

vars == <<mangaJson, usedJson, numRecs, pc, manga, used, remaining, selected,
          resetOccurred, outFile, metaFile, emailStatus, failedAt, ledger0,
          runs, hasPrev, prevReset, prevBatch, noRepeat>>

locals == <<manga, used, remaining, selected, resetOccurred>>
files == <<mangaJson, usedJson>>
history == <<ledger0, runs, hasPrev, prevReset, prevBatch, noRepeat>>

\* --------------------------------------------------------------- helpers
Range(s) == {s[i] : i \in DOMAIN s}

NoDuplicates(s) == \A i, j \in DOMAIN s : i # j => s[i] # s[j]

SeqsUpTo(S, n) == UNION {[1..k -> S] : k \in 0..n}

DistinctSeqsUpTo(S, n) == {s \in SeqsUpTo(S, n) : NoDuplicates(s)}

NoFile == [exists |-> FALSE, data |-> <<>>]

File(content) == [exists |-> TRUE, data |-> content]

\* ---------------------------------------------------------- JSON helpers
\* read_json: None when the file does not exist, else its content.
read_json(p) == IF ~p.exists THEN [none |-> TRUE, value |-> <<>>]
                ELSE [none |-> FALSE, value |-> p.data]

\* `x or []`: None and the empty list both give [].
OrEmpty(x) == IF x.none \/ x.value = <<>> THEN <<>> ELSE x.value

\* write_json: the file is overwritten with the data.
write_json(data) == File(data)

\* ------------------------------------------------------- manga selection
\* Mutant of SelectRemaining: the used list is not consulted.
SelectRemainingAll(mangaList, usedList) == mangaList

\* remaining = [m for m in manga if m[0] not in used_set]
SelectRemaining(mangaList, usedList) ==
    LET used_set == Range(usedList)
        Unused(m) == m \notin used_set
    IN  SelectSeq(mangaList, Unused)

\* Mutant of ResetNeeded: the comparison is off by one.
ResetNeededOffByOne(rem, n) == Len(rem) <= n

\* len(remaining) < NUM_RECS
ResetNeeded(rem, n) == Len(rem) < n

\* The ordered arrangements of k distinct elements of S.
RECURSIVE Arrangements(_, _)
Arrangements(S, k) ==
    IF k = 0 THEN {<<>>}
    ELSE UNION {{<<x>> \o t : t \in Arrangements(S \ {x}, k - 1)} : x \in S}

\* random.sample(population, k): k elements at distinct positions, in any
\* order; no result (ValueError) when k exceeds the population.
RandomSample(population, k) ==
    {[i \in 1..k |-> population[p[i]]] : p \in Arrangements(1..Len(population), k)}

\* ---------------------------------------------------------------- commit
\* Mutant of UniqLoop: nothing is dropped.
UniqLoopKeepAll(used_new, i, seen, uniq) == used_new

\* for u in used_new: if u not in seen: seen.add(u); uniq.append(u)
RECURSIVE UniqLoop(_, _, _, _)
UniqLoop(used_new, i, seen, uniq) ==
    IF i > Len(used_new) THEN uniq
    ELSE IF used_new[i] \notin seen
         THEN UniqLoop(used_new, i + 1, seen \cup {used_new[i]}, Append(uniq, used_new[i]))
         ELSE UniqLoop(used_new, i + 1, seen, uniq)

\* Mutant of CommitLedger: the batch is not appended.
CommitLedgerNoExtend(ledgerFile, batch) ==
    write_json(UniqLoop(OrEmpty(read_json(ledgerFile)), 1, {}, <<>>))

\* Lines 315-321: what the commit step writes to used.json.
CommitLedger(ledgerFile, batch) ==
    LET used_new == OrEmpty(read_json(ledgerFile)) \o batch
    IN  write_json(UniqLoop(used_new, 1, {}, <<>>))

\* ------------------------------------------------------------------ init
Catalogs == {[i \in 1..k |-> i] : k \in 0..MaxCatalog}

MangaFiles == {NoFile} \cup {File(c) : c \in Catalogs}

UsedFiles == {NoFile} \cup {File(u) : u \in SeqsUpTo(UsedIds, MaxUsed)}

InitProcess ==
    /\ pc = "start"
    /\ manga = <<>>
    /\ used = <<>>
    /\ remaining = <<>>
    /\ selected = <<>>
    /\ resetOccurred = FALSE
    /\ outFile = "absent"
    /\ metaFile = FALSE
    /\ emailStatus = "none"
    /\ failedAt = "none"

InitHistory ==
    /\ ledger0 = usedJson
    /\ runs = 1
    /\ hasPrev = FALSE
    /\ prevReset = FALSE
    /\ prevBatch = {}
    /\ noRepeat = {}

Init ==
    /\ mangaJson \in MangaFiles
    /\ usedJson \in UsedFiles
    /\ numRecs = NUM_RECS
    /\ InitProcess
    /\ InitHistory

\* --------------------------------------------------------------- actions
\* Line 202 and get_unused_items (lines 73-78).
GetUnusedItems ==
    /\ pc = "start"
    /\ manga' = OrEmpty(read_json(mangaJson))
    /\ used' = OrEmpty(read_json(usedJson))
    /\ remaining' = SelectRemaining(OrEmpty(read_json(mangaJson)), OrEmpty(read_json(usedJson)))
    /\ pc' = "select"
    /\ UNCHANGED <<files, numRecs, selected, resetOccurred, outFile, metaFile,
                   emailStatus, failedAt, history>>

\* An uncaught exception ends the process: its locals are gone.
Crash(step) ==
    /\ pc' = "crashed"
    /\ failedAt' = step
    /\ manga' = <<>>
    /\ used' = <<>>
    /\ remaining' = <<>>
    /\ selected' = <<>>
    /\ resetOccurred' = FALSE

\* Mutant of Select: a short population gives a short batch instead of
\* an exception.
SelectClamped ==
    /\ pc = "select"
    /\ LET reset == ResetNeeded(remaining, numRecs)
           remaining2 == IF reset THEN manga ELSE remaining
           k == IF Len(remaining2) < numRecs THEN Len(remaining2) ELSE numRecs
       IN  /\ \E s \in RandomSample(remaining2, k) : selected' = s
           /\ resetOccurred' = reset
           /\ used' = IF reset THEN <<>> ELSE used
           /\ remaining' = remaining2
           /\ pc' = "render"
           /\ UNCHANGED <<files, numRecs, manga, outFile, metaFile, emailStatus,
                          failedAt, history>>

\* Lines 203-210: the reset branch and the draw.
Select ==
    /\ pc = "select"
    /\ LET reset == ResetNeeded(remaining, numRecs)
           used2 == IF reset THEN <<>> ELSE used
           remaining2 == IF reset THEN manga ELSE remaining
       IN  IF RandomSample(remaining2, numRecs) = {}
           THEN /\ Crash("select")
                /\ UNCHANGED <<files, numRecs, outFile, metaFile, emailStatus, history>>
           ELSE /\ \E s \in RandomSample(remaining2, numRecs) : selected' = s
                /\ resetOccurred' = reset
                /\ used' = used2
                /\ remaining' = remaining2
                /\ pc' = "render"
                /\ UNCHANGED <<files, numRecs, manga, outFile, metaFile, emailStatus,
                               failedAt, history>>

\* Lines 212-312: the slides are built and concatenated, and
\* write_videofile returns.
WriteVideoOk ==
    /\ pc = "render"
    /\ outFile' = "complete"
    /\ pc' = "commit"
    /\ UNCHANGED <<files, numRecs, locals, metaFile, emailStatus, failedAt, history>>

\* Lines 212-309: an exception of the imaging or video library before the
\* encoding starts.
RenderFail ==
    /\ pc = "render"
    /\ Crash("render")
    /\ UNCHANGED <<files, numRecs, outFile, metaFile, emailStatus, history>>

\* Mutant of WriteVideoFail: the ledger is written before the encoding.
WriteVideoFailAfterCommit ==
    /\ pc = "render"
    /\ outFile' \in {"absent", "partial"}
    /\ usedJson' = CommitLedger(usedJson, selected)
    /\ Crash("write")
    /\ UNCHANGED <<mangaJson, numRecs, metaFile, emailStatus, history>>

\* Line 311: write_videofile raises; the file is missing or truncated.
WriteVideoFail ==
    /\ pc = "render"
    /\ outFile' \in {"absent", "partial"}
    /\ Crash("write")
    /\ UNCHANGED <<files, numRecs, metaFile, emailStatus, history>>

\* Lines 315-321 between two pc values: used.json is read again, the batch
\* titles are appended, duplicates are dropped, the file is overwritten.
CommitStep(from, to) ==
    /\ pc = from
    /\ usedJson' = CommitLedger(usedJson, selected)
    /\ pc' = to
    /\ UNCHANGED <<mangaJson, numRecs, locals, outFile, emailStatus, failedAt, history>>

\* Lines 314-326: the commit, the meta file, and the return to __main__.
Commit ==
    /\ CommitStep("commit", "email")
    /\ metaFile' = TRUE

\* History: the invocation whose build_video returned is the previous
\* successful run of the next invocation.
RecordRun ==
    /\ hasPrev' = TRUE
    /\ prevReset' = resetOccurred
    /\ prevBatch' = Range(selected)
    /\ noRepeat' = IF resetOccurred THEN Range(selected)
                   ELSE noRepeat \cup Range(selected)
    /\ UNCHANGED <<ledger0, runs>>

\* The process ends: its locals are gone.
Exit ==
    /\ pc' = "done"
    /\ manga' = <<>>
    /\ used' = <<>>
    /\ remaining' = <<>>
    /\ selected' = <<>>
    /\ resetOccurred' = FALSE

\* Mutant of SendEmail: a transport error restores the ledger.
SendEmailRollback ==
    /\ pc = "email"
    /\ \E status \in {"skipped", "sent", "failed"} :
          /\ emailStatus' = status
          /\ usedJson' = IF status = "failed" THEN ledger0 ELSE usedJson
    /\ Exit
    /\ RecordRun
    /\ UNCHANGED <<mangaJson, numRecs, outFile, metaFile, failedAt>>

\* Lines 329-357 and 362: skipped without credentials, sent, or a
\* transport error caught at line 356; then the script ends.
SendEmail ==
    /\ pc = "email"
    /\ emailStatus' \in {"skipped", "sent", "failed"}
    /\ Exit
    /\ RecordRun
    /\ UNCHANGED <<files, numRecs, outFile, metaFile, failedAt>>

Next ==
    \/ GetUnusedItems
    \/ Select
    \/ WriteVideoOk
    \/ RenderFail
    \/ WriteVideoFail
    \/ Commit
    \/ SendEmail

Spec == Init /\ [][Next]_vars

\* ------------------------------------------------------ repeated invocations
\* The next invocation of the script (the job runs once a day): a new
\* process over the files the last one left, writing a new day's video.
Restart ==
    /\ pc \in {"done", "crashed"}
    /\ runs < MaxRuns
    /\ runs' = runs + 1
    /\ ledger0' = usedJson
    /\ pc' = "start"
    /\ outFile' = "absent"
    /\ metaFile' = FALSE
    /\ emailStatus' = "none"
    /\ failedAt' = "none"
    /\ UNCHANGED <<files, numRecs, locals, hasPrev, prevReset, prevBatch, noRepeat>>

InitDaily ==
    /\ mangaJson \in {f \in MangaFiles : Len(f.data) <= MaxDailyCatalog}
    /\ usedJson \in UsedFiles
    /\ numRecs \in 1..MaxRecs
    /\ InitProcess
    /\ InitHistory

NextDaily == Next \/ Restart

SpecDaily == InitDaily /\ [][NextDaily]_vars

\* ------------------------------------------------- the commit step alone
CommitIds == 1..MaxIds

InitCommit ==
    /\ mangaJson = NoFile
    /\ usedJson \in {NoFile} \cup {File(u) : u \in SeqsUpTo(CommitIds, MaxLedger)}
    /\ numRecs = NUM_RECS
    /\ pc = "commit"
    /\ manga = <<>>
    /\ used = <<>>
    /\ remaining = <<>>
    /\ selected \in DistinctSeqsUpTo(CommitIds, MaxBatch)
    /\ resetOccurred = FALSE
    /\ outFile = "complete"
    /\ metaFile = FALSE
    /\ emailStatus = "none"
    /\ failedAt = "none"
    /\ InitHistory

\* Lines 315-321 run a second time with the same batch.
CommitAgain ==
    /\ CommitStep("email", "recommitted")
    /\ UNCHANGED metaFile

NextCommit == Commit \/ CommitAgain

SpecCommit == InitCommit /\ [][NextCommit]_vars

\* ================================================================ claims
AfterSelect == {"render", "commit", "email"}

\* The catalog and the persisted used list the invocation started from.
CatalogIds == Range(mangaJson.data)

LedgerIds == Range(ledger0.data)

\* The elements of L at the positions of their first occurrence, in order.
KeepFirst(L) ==
    LET keep == {i \in 1..Len(L) : \A j \in 1..(i - 1) : L[j] # L[i]}
        Nth(k) == CHOOSE i \in keep : Cardinality({j \in keep : j <= i}) = k
    IN  [k \in 1..Cardinality(keep) |-> L[Nth(k)]]

\* C1: with a catalog of at least n items, whatever the used list, the
\* selection does not fail and picks exactly n items, pairwise distinct, all
\* of the catalog, none of them in the used list unless the reset branch ran.
C1_SelectsDistinctUnused ==
    Len(mangaJson.data) >= numRecs =>
        /\ failedAt # "select"
        /\ pc \in AfterSelect =>
              /\ Len(selected) = numRecs
              /\ NoDuplicates(selected)
              /\ Range(selected) \subseteq CatalogIds
              /\ ~resetOccurred => Range(selected) \cap LedgerIds = {}

\* A run that finished without a reset although the used list named
\* catalog items.
C1_Witness ==
    /\ pc = "email"
    /\ ~resetOccurred
    /\ LedgerIds \cap CatalogIds # {}
    /\ Len(mangaJson.data) > numRecs

\* C2: the reset branch runs iff fewer than n catalog items are unused; with
\* it the batch is drawn from the whole catalog and the used list is empty,
\* without it the batch is drawn from the unused items only.
C2_ResetIffTooFewUnused ==
    /\ pc \in AfterSelect =>
          /\ resetOccurred <=> Cardinality(CatalogIds \ LedgerIds) < numRecs
          /\ resetOccurred => remaining = mangaJson.data /\ used = <<>>
          /\ ~resetOccurred => Range(remaining) = CatalogIds \ LedgerIds
          /\ Range(selected) \subseteq Range(remaining)
    /\ failedAt = "select" => Cardinality(CatalogIds \ LedgerIds) < numRecs

\* A reset run over a catalog of n + 1 items whose batch holds a used item.
C2_Witness ==
    /\ pc = "email"
    /\ resetOccurred
    /\ Len(mangaJson.data) = numRecs + 1
    /\ Range(selected) \cap LedgerIds # {}
    /\ CatalogIds \ LedgerIds # {}

\* C3: used.json differs from what the invocation found only once the video
\* file is complete; a failure while rendering or encoding leaves it as found.
C3_LedgerOnlyAfterVideo ==
    /\ usedJson # ledger0 => outFile = "complete"
    /\ failedAt \in {"render", "write"} => usedJson = ledger0 /\ outFile # "complete"

\* The encoder failed on a selected batch and left a truncated file.
C3_Witness ==
    /\ failedAt = "write"
    /\ outFile = "partial"
    /\ ledger0.data # <<>>

\* C4 (as claimed): after a successful reset run the persisted ledger holds
\* exactly the ids of that run's batch.
C4_ResetLedgerIsBatch ==
    (resetOccurred /\ pc = "email") => Range(usedJson.data) = Range(selected)

\* C5: the list written is the prior entries followed by the batch ids,
\* first occurrences only, so it holds no id twice; [A,B] with [C,D,E] gives
\* [A,B,C,D,E].
C5_WrittenIsFirstOccurrences ==
    /\ pc \in {"email", "recommitted"} => usedJson.exists /\ NoDuplicates(usedJson.data)
    /\ pc = "email" => usedJson.data = KeepFirst(ledger0.data \o selected)
    /\ (pc = "email" /\ ledger0.data = <<1, 2>> /\ selected = <<3, 4, 5>>)
          => usedJson.data = <<1, 2, 3, 4, 5>>

\* The ledger on disk was [A,A,B] and the write removed the duplicate.
C5_Witness ==
    /\ pc = "email"
    /\ ledger0.data = <<1, 1, 2>>
    /\ selected = <<3, 2, 4>>
    /\ usedJson.data = <<1, 2, 3, 4>>

\* C6: with fewer than n catalog items the invocation fails at the
\* selection, with no video, no meta file, no mail and used.json as found.
C6_SmallCatalogFailsEarly ==
    (Len(mangaJson.data) < numRecs /\ pc \notin {"start", "select"}) =>
        /\ pc = "crashed"
        /\ failedAt = "select"
        /\ outFile = "absent"
        /\ ~metaFile
        /\ emailStatus = "none"
        /\ usedJson = ledger0

\* The catalog [A,B,C] with an empty used list failed at the selection.
C6_Witness ==
    /\ pc = "crashed"
    /\ failedAt = "select"
    /\ mangaJson.data = <<1, 2, 3>>
    /\ ledger0 = File(<<>>)

\* C7: the commit step applied a second time with the same batch leaves the
\* ledger that one application gives: commit(commit(U,B),B) = commit(U,B).
C7_CommitIdempotent ==
    pc = "recommitted" => usedJson = CommitLedger(ledger0, selected)

\* Two applications to a ledger with a duplicate and a batch that overlaps it.
C7_Witness ==
    /\ pc = "recommitted"
    /\ ~NoDuplicates(ledger0.data)
    /\ Range(selected) \cap LedgerIds # {}
    /\ Range(selected) \ LedgerIds # {}

\* C8: send_email leaves used.json as build_video committed it and ends the
\* invocation normally, whether the mail is skipped, sent or fails.
C8_DeliveryKeepsLedger ==
    [][pc = "email" => (usedJson' = usedJson /\ pc' = "done" /\ failedAt' = "none")]_vars

\* A transport error after a commit that changed the ledger.
C8_Witness ==
    /\ pc = "done"
    /\ emailStatus = "failed"
    /\ usedJson # ledger0

\* C9: a successful run that does not reset selects no item that a
\* successful run selected since the last reset.
C9_NoRepeatUntilReset ==
    (pc = "email" /\ ~resetOccurred) => Range(selected) \cap noRepeat = {}

\* A second successful run without a reset, after a first one, batches of two.
C9_Witness ==
    /\ pc = "email"
    /\ ~resetOccurred
    /\ hasPrev
    /\ noRepeat # {}
    /\ numRecs > 1

\* C10 (as claimed): over a catalog of at least 2n items, the successful
\* run after a successful reset run does not reset and shares no item with it.
C10_ResetStartsFreshRotation ==
    (Len(mangaJson.data) >= 2 * numRecs /\ hasPrev /\ prevReset /\ pc = "email")
        => (~resetOccurred /\ Range(selected) \cap prevBatch = {})

====
